---- MODULE Spec2Model ----
(***************************************************************************)
(* Model of the bevy_power resource state machine (src/src/*.rs).          *)
(*                                                                         *)
(* Numbers.  f32 power values (current, max, base_max, power_value,        *)
(* experience, rates) are fixed-point integers in hundredths of a point    *)
(* (FP(100) is 100.0); division truncates.  Times (delta, timers,          *)
(* time_since_spend, regen_delay) are integers in units of 2.5 seconds,    *)
(* so that the default regen_delay is one unit; TimesDelta(x, d) is the    *)
(* product x * delta for a delta of d units, with x per second.            *)
(*                                                                         *)
(* One entity carries the PowerBundle (PowerSystem::get_power_entity       *)
(* assumes a single one).  A tick runs the systems in the order in which   *)
(* PowerSystemPlugin::build lists them: the five intent handlers of the    *)
(* Input set, then regenerate_power, update_limit_timers, detect_knockout  *)
(* and handle_level_up of the Update set.  Each handler drains its own     *)
(* event queue, one event per step; pc names the system that runs next and *)
(* pc = "idle" is the state between two ticks, where the application       *)
(* queues intents.  The display colour of a limit is omitted.              *)
(*                                                                         *)
(* History variables, read by the properties only: last_applied (the       *)
(* state before the most recent apply-limit, until the lift handler has    *)
(* handled its first event), ko_by_limit (the entity is knocked out by a   *)
(* limit that was applied to an empty stack and took max to 0, and no      *)
(* limit has been applied since), soft_revived (a lift of this tick        *)
(* cleared such a knockout), outcome (what the last step did), and the     *)
(* field age of a timed limit (the sum of the deltas of the timer sweeps   *)
(* since it was applied), and arrival (the intents queued and not yet      *)
(* handled, in the order of the calls that queued them, each with whether  *)
(* a try call queued it; the handlers read one queue per kind, where that  *)
(* order across kinds is not kept), and revived_empty (whether a revive    *)
(* of this tick has cleared the knockout and left current <= 0: "no_max"   *)
(* when max was <= 0, "no_power" when only the amount was <= 0).           *)
(***************************************************************************)
EXTENDS Integers, Sequences, FiniteSets, TLC

VARIABLES bar, regen, level, limits,
          spend_events, change_events, limit_events, lift_events, revive_events,
          knocked_out_events, level_up_events,
          pc, delta, changed,
          last_applied, ko_by_limit, soft_revived, outcome, arrival,
          revived_empty

vars == <<bar, regen, level, limits,
          spend_events, change_events, limit_events, lift_events, revive_events,
          knocked_out_events, level_up_events,
          pc, delta, changed,
          last_applied, ko_by_limit, soft_revived, outcome, arrival,
          revived_empty>>

(* ---------------------------------------------------------------------- *)
(* Units and bounds                                                        *)
(* ---------------------------------------------------------------------- *)
FP(points) == points * 100
TimesDelta(x, d) == (x * d * 5) \div 2

MaxQueue == 2
MaxLimits == 2
MaxLevel == 2
MaxTime == 6

Player == "player"
Entities == {Player}

Deltas == {2, 4}
RegenDelays == {1, 3}
SpendAmounts == {FP(50), FP(110)}
ChangeAmounts == {FP(50), 0 - FP(50)}
ReviveAmounts == {0, FP(50)}
ExperienceAmounts == {FP(100), FP(300)}
LiftIds == {1, 2}

NoDuration == 0 - 1

Points(p) == [kind |-> "Points", value |-> p]
Percentage(p) == [kind |-> "Percentage", value |-> p]

LimitInputs ==
  { [id |-> 1, limit_type |-> Points(FP(110)), duration |-> NoDuration,
     resets_cooldown |-> TRUE, stops_regeneration |-> FALSE],
    [id |-> 1, limit_type |-> Percentage(25), duration |-> 4,
     resets_cooldown |-> FALSE, stops_regeneration |-> TRUE],
    [id |-> 2, limit_type |-> Points(FP(100)), duration |-> 3,
     resets_cooldown |-> FALSE, stops_regeneration |-> FALSE] }

Max(a, b) == IF a >= b THEN a ELSE b
Min(a, b) == IF a <= b THEN a ELSE b
Abs(a) == IF a < 0 THEN 0 - a ELSE a

(* ---------------------------------------------------------------------- *)
(* components.rs: PowerBar                                                 *)
(* ---------------------------------------------------------------------- *)
PowerBar_new(max_power) ==
  [current |-> max_power, max |-> max_power, base_max |-> max_power,
   is_knocked_out |-> FALSE]

(* Mutant of spend: an unaffordable spend drains what is left.             *)
spend_saturating(b, amount) ==
  IF b.is_knocked_out THEN [bar |-> b, ok |-> FALSE]
  ELSE IF b.current < amount
       THEN [bar |-> [b EXCEPT !.current = 0], ok |-> FALSE]
       ELSE [bar |-> [b EXCEPT !.current = Max(b.current - amount, 0)], ok |-> TRUE]

spend(b, amount) ==
  IF b.is_knocked_out \/ b.current < amount
  THEN [bar |-> b, ok |-> FALSE]
  ELSE [bar |-> [b EXCEPT !.current = Max(b.current - amount, 0)], ok |-> TRUE]

(* Mutant of add: power is added to a knocked-out entity too.              *)
add_while_knocked_out(b, amount) ==
  [b EXCEPT !.current = Min(b.current + amount, b.max)]
(* Mutant of add: an addition that would pass max is refused instead of    *)
(* being clamped.                                                          *)
add_unless_over(b, amount) ==
  IF ~b.is_knocked_out /\ b.current + amount <= b.max
  THEN [b EXCEPT !.current = b.current + amount]
  ELSE b
add(b, amount) ==
  IF ~b.is_knocked_out
  THEN [b EXCEPT !.current = Min(b.current + amount, b.max)]
  ELSE b

(* Mutant of revive: the revival amount is not clamped to max.             *)
revive_unclamped(b, power_amount) ==
  IF b.is_knocked_out
  THEN [b EXCEPT !.is_knocked_out = FALSE, !.current = power_amount]
  ELSE b
(* Mutant of revive: a revival that would leave no power is refused.       *)
revive_refuses_empty(b, power_amount) ==
  IF b.is_knocked_out /\ Min(power_amount, b.max) > 0
  THEN [b EXCEPT !.is_knocked_out = FALSE,
                 !.current = Min(power_amount, b.max)]
  ELSE b
revive(b, power_amount) ==
  IF b.is_knocked_out
  THEN [b EXCEPT !.is_knocked_out = FALSE,
                 !.current = Min(power_amount, b.max)]
  ELSE b

(* ---------------------------------------------------------------------- *)
(* components.rs: PowerLevel                                               *)
(* ---------------------------------------------------------------------- *)
PowerLevel_default ==
  [level |-> 1, experience |-> 0, experience_to_next |-> FP(100)]

(* Mutant of the bonus formula: it is evaluated before level is            *)
(* incremented.                                                            *)
level_up_bonus_old_level(new_level) == (FP(20) * 5) \div (5 + (new_level - 2))
level_up_bonus(new_level) == (FP(20) * 5) \div (5 + (new_level - 1))

(* Mutant of level_up: the experience gathered is not reset.               *)
level_up_keeps_experience(pl) ==
  [level |-> [level |-> pl.level + 1,
              experience |-> pl.experience,
              experience_to_next |-> (pl.experience_to_next * 3) \div 2],
   bonus |-> level_up_bonus(pl.level + 1)]
level_up(pl) ==
  [level |-> [level |-> pl.level + 1,
              experience |-> 0,
              experience_to_next |-> (pl.experience_to_next * 3) \div 2],
   bonus |-> level_up_bonus(pl.level + 1)]

add_experience(pl, amount) == [pl EXCEPT !.experience = pl.experience + amount]

(* ---------------------------------------------------------------------- *)
(* components.rs: PowerRegeneration                                        *)
(* ---------------------------------------------------------------------- *)
PowerRegeneration_default ==
  [time_since_spend |-> 0, regen_delay |-> 1, current_rate |-> 0,
   base_rate |-> FP(5), max_rate |-> FP(20), ramp_speed |-> FP(2),
   is_active |-> FALSE]

(* Mutant of reset: the ramp keeps its rate.                               *)
reset_keeps_rate(r) == [r EXCEPT !.time_since_spend = 0, !.is_active = FALSE]

reset(r) ==
  [r EXCEPT !.time_since_spend = 0, !.current_rate = 0, !.is_active = FALSE]

(* Mutant of the ramp: the grown rate is not clamped to max_rate.          *)
ramp_unclamped(r, d) ==
  LET grown == r.current_rate + TimesDelta(r.ramp_speed, d)
  IN  IF grown = 0 THEN r.base_rate ELSE grown
ramp(r, d) ==
  LET grown == Min(r.current_rate + TimesDelta(r.ramp_speed, d), r.max_rate)
  IN  IF grown = 0 THEN r.base_rate ELSE grown

(* Mutant of update: the ramp starts at once, whatever the delay.          *)
regen_update_no_delay(r, d) ==
  [r EXCEPT !.time_since_spend = r.time_since_spend + d,
            !.is_active = TRUE,
            !.current_rate = IF r.current_rate < r.max_rate
                             THEN ramp(r, d)
                             ELSE r.current_rate]
regen_update(r, d) ==
  LET t == r.time_since_spend + d
  IN  IF t >= r.regen_delay
      THEN [r EXCEPT !.time_since_spend = t,
                     !.is_active = TRUE,
                     !.current_rate = IF r.current_rate < r.max_rate
                                      THEN ramp(r, d)
                                      ELSE r.current_rate]
      ELSE [r EXCEPT !.time_since_spend = t]

get_regen_amount(r, d) ==
  IF r.is_active THEN TimesDelta(r.current_rate, d) ELSE 0

(* ---------------------------------------------------------------------- *)
(* limits.rs: PowerLimit, PowerLimits                                      *)
(* ---------------------------------------------------------------------- *)
(* systems.rs:79-86 builds a limit from six arguments, the last being      *)
(* stops_regeneration, and systems.rs:59 asks the stack for                *)
(* any_stops_regeneration(); limits.rs declares neither, so the flag and   *)
(* the query follow their documented meaning: a stored flag and "any       *)
(* entry carries it".                                                      *)
PowerLimit_new(id, limit_type, duration, resets_cooldown, stops_regeneration) ==
  [id |-> id, limit_type |-> limit_type,
   timed |-> duration # NoDuration,
   duration |-> duration, elapsed |-> 0,
   resets_cooldown |-> resets_cooldown,
   stops_regeneration |-> stops_regeneration,
   power_value |-> 0,
   age |-> 0]

calculate_value(limit_type, base_max) ==
  IF limit_type.kind = "Points"
  THEN limit_type.value
  ELSE (base_max * limit_type.value) \div 100

timer_tick(l, d) ==
  IF l.elapsed >= l.duration THEN l
  ELSE [l EXCEPT !.elapsed = Min(l.elapsed + d, l.duration)]

(* Mutant of timer_finished: a timer that has run exactly its duration is  *)
(* not finished yet.                                                       *)
timer_finished_strict(l) == l.elapsed > l.duration

timer_finished(l) == l.elapsed >= l.duration

limit_update(l, d) == IF l.timed THEN timer_tick(l, d) ELSE l

(* Mutant of PowerLimit::update: a limit without a timer is treated like   *)
(* one whose timer has run out.                                            *)
limit_expired_untimed(l, d) == timer_finished(timer_tick(l, d))
limit_expired(l, d) == l.timed /\ timer_finished(timer_tick(l, d))

add_limit(ls, limit, base_max) ==
  Append(ls, [limit EXCEPT !.power_value = calculate_value(limit.limit_type, base_max)])

position(ls, id) ==
  IF \E i \in 1..Len(ls) : ls[i].id = id
  THEN CHOOSE i \in 1..Len(ls) :
         ls[i].id = id /\ \A j \in 1..(i - 1) : ls[j].id # id
  ELSE 0

RemoveAt(ls, index) ==
  [i \in 1..(Len(ls) - 1) |-> IF i < index THEN ls[i] ELSE ls[i + 1]]

(* Mutant of remove_limit: the oldest entry goes, whatever its id.         *)
remove_limit_front(ls, id) ==
  IF \E i \in 1..Len(ls) : ls[i].id = id THEN Tail(ls) ELSE ls

(* Mutant of remove_limit: every entry with the id goes.                   *)
remove_limit_all(ls, id) == SelectSeq(ls, LAMBDA l : l.id # id)
remove_limit_ok(ls, id) == position(ls, id) # 0

remove_limit(ls, id) ==
  IF position(ls, id) # 0 THEN RemoveAt(ls, position(ls, id)) ELSE ls

RECURSIVE SumValues(_)
SumValues(ls) ==
  IF ls = <<>> THEN 0 ELSE Head(ls).power_value + SumValues(Tail(ls))

total_reduction(ls) == SumValues(ls)

RECURSIVE Retain(_, _)
Retain(ls, d) ==
  IF ls = <<>> THEN <<>>
  ELSE IF limit_expired(Head(ls), d)
       THEN Retain(Tail(ls), d)
       ELSE <<limit_update(Head(ls), d)>> \o Retain(Tail(ls), d)

RECURSIVE RemovedIds(_, _)
RemovedIds(ls, d) ==
  IF ls = <<>> THEN <<>>
  ELSE IF limit_expired(Head(ls), d)
       THEN <<Head(ls).id>> \o RemovedIds(Tail(ls), d)
       ELSE RemovedIds(Tail(ls), d)

update_timers(ls, d) == [limits |-> Retain(ls, d), removed_ids |-> RemovedIds(ls, d)]

any_resets_cooldown(ls) == \E i \in 1..Len(ls) : ls[i].resets_cooldown

any_stops_regeneration(ls) == \E i \in 1..Len(ls) : ls[i].stops_regeneration

derived_max(base_max, ls) == Max(base_max - total_reduction(ls), 0)

(* ---------------------------------------------------------------------- *)
(* State after construction: PowerBundle::custom(100.0, regen_delay, 5.0,  *)
(* 20.0) with the default regen_delay of 2.5 s or one of 7.5 s, no event   *)
(* queued.  A freshly added PowerBar counts as changed.                    *)
(* ---------------------------------------------------------------------- *)
PowerBundle_custom(max_power, regen_delay, base_regen_rate, max_regen_rate) ==
  [power_bar |-> PowerBar_new(max_power),
   power_level |-> PowerLevel_default,
   power_regeneration |->
     [PowerRegeneration_default EXCEPT !.regen_delay = regen_delay,
                                       !.base_rate = base_regen_rate,
                                       !.max_rate = max_regen_rate,
                                       !.ramp_speed = FP(2)],
   power_limits |-> <<>>]

NoProbe ==
  [id |-> 0, max_before |-> 0, current_before |-> 0, derived_before |-> 0,
   duplicate |-> FALSE]

Init ==
  /\ bar = PowerBundle_custom(FP(100), 1, FP(5), FP(20)).power_bar
  /\ \E regen_delay \in RegenDelays :
       regen = PowerBundle_custom(FP(100), regen_delay, FP(5), FP(20)).power_regeneration
  /\ level = PowerBundle_custom(FP(100), 1, FP(5), FP(20)).power_level
  /\ limits = PowerBundle_custom(FP(100), 1, FP(5), FP(20)).power_limits
  /\ spend_events = <<>>
  /\ change_events = <<>>
  /\ limit_events = <<>>
  /\ lift_events = <<>>
  /\ revive_events = <<>>
  /\ knocked_out_events = <<>>
  /\ level_up_events = <<>>
  /\ pc = "idle"
  /\ delta = 0
  /\ changed = TRUE
  /\ last_applied = NoProbe
  /\ ko_by_limit = FALSE
  /\ soft_revived = FALSE
  /\ revived_empty = "none"
  /\ outcome = "none"
  /\ arrival = <<>>

Queued ==
  Len(spend_events) + Len(change_events) + Len(limit_events)
    + Len(lift_events) + Len(revive_events)

components == <<bar, regen, level, limits>>
queues == <<spend_events, change_events, limit_events, lift_events, revive_events>>
notifications == <<knocked_out_events, level_up_events>>
history == <<last_applied, ko_by_limit, soft_revived, revived_empty>>
Quiet == outcome' = "none"

Arrived(kind, tried) == arrival' = Append(arrival, [kind |-> kind, tried |-> tried])

FirstOf(kind) == CHOOSE i \in 1..Len(arrival) :
                   arrival[i].kind = kind /\ \A j \in 1..(i - 1) : arrival[j].kind # kind

Served(kind) ==
  arrival' = [i \in 1..(Len(arrival) - 1) |->
                IF i < FirstOf(kind) THEN arrival[i] ELSE arrival[i + 1]]

(* ---------------------------------------------------------------------- *)
(* plugin.rs: PowerSystem, the application queueing intents between ticks  *)
(* ---------------------------------------------------------------------- *)
PowerSystem_spend ==
  /\ pc = "idle" /\ Queued < MaxQueue
  /\ Quiet
  /\ Arrived("spend", FALSE)
  /\ \E entity \in Entities, amount \in SpendAmounts :
       spend_events' = Append(spend_events, [entity |-> entity, amount |-> amount])
  /\ UNCHANGED <<components, change_events, limit_events, lift_events, revive_events,
                 notifications, pc, delta, changed, history>>

PowerSystem_change ==
  /\ pc = "idle" /\ Queued < MaxQueue
  /\ Quiet
  /\ Arrived("change", FALSE)
  /\ \E entity \in Entities, amount \in ChangeAmounts :
       change_events' = Append(change_events, [entity |-> entity, amount |-> amount])
  /\ UNCHANGED <<components, spend_events, limit_events, lift_events, revive_events,
                 notifications, pc, delta, changed, history>>

PowerSystem_limit ==
  /\ pc = "idle" /\ Queued < MaxQueue
  /\ Quiet
  /\ Arrived("limit", FALSE)
  /\ Len(limits) + Len(limit_events) < MaxLimits
  /\ \E entity \in Entities, input \in LimitInputs :
       limit_events' = Append(limit_events,
         [entity |-> entity, id |-> input.id, limit_type |-> input.limit_type,
          duration |-> input.duration, resets_cooldown |-> input.resets_cooldown,
          stops_regeneration |-> input.stops_regeneration])
  /\ UNCHANGED <<components, spend_events, change_events, lift_events, revive_events,
                 notifications, pc, delta, changed, history>>

PowerSystem_lift ==
  /\ pc = "idle" /\ Queued < MaxQueue
  /\ Quiet
  /\ Arrived("lift", FALSE)
  /\ \E entity \in Entities, limit_id \in LiftIds :
       lift_events' = Append(lift_events, [entity |-> entity, id |-> limit_id])
  /\ UNCHANGED <<components, spend_events, change_events, limit_events, revive_events,
                 notifications, pc, delta, changed, history>>

PowerSystem_revive ==
  /\ pc = "idle" /\ Queued < MaxQueue
  /\ Quiet
  /\ Arrived("revive", FALSE)
  /\ \E entity \in Entities, power_amount \in ReviveAmounts :
       revive_events' = Append(revive_events,
                               [entity |-> entity, power_amount |-> power_amount])
  /\ UNCHANGED <<components, spend_events, change_events, limit_events, lift_events,
                 notifications, pc, delta, changed, history>>

can_afford(amount) == ~bar.is_knocked_out /\ bar.current > amount

(* The try calls look at the components as they are when the call is made, *)
(* between two ticks, and queue the same events as the plain calls.        *)
PowerSystem_try_spend ==
  /\ pc = "idle" /\ Queued < MaxQueue
  /\ \E entity \in Entities, amount \in SpendAmounts :
       IF can_afford(amount)
       THEN /\ spend_events' = Append(spend_events, [entity |-> entity, amount |-> amount])
            /\ Arrived("spend", TRUE)
            /\ outcome' = "try_spend_queued"
       ELSE /\ outcome' = "try_spend_refused"
            /\ UNCHANGED <<spend_events, arrival>>
  /\ UNCHANGED <<components, change_events, limit_events, lift_events, revive_events,
                 notifications, pc, delta, changed, history>>

PowerSystem_try_limit_points ==
  /\ pc = "idle" /\ Queued < MaxQueue
  /\ Len(limits) + Len(limit_events) < MaxLimits
  /\ \E entity \in Entities, input \in LimitInputs :
       LET points == input.limit_type.value
           total_current_reduction == total_reduction(limits)
           new_total_reduction == total_current_reduction + points
           new_max == Max(bar.base_max - new_total_reduction, 0)
           new_current == Min(bar.current, new_max)
       IN  /\ input.limit_type.kind = "Points"
           /\ IF new_max > 0 /\ new_current > 0
              THEN /\ limit_events' = Append(limit_events,
                        [entity |-> entity, id |-> input.id,
                         limit_type |-> Points(points),
                         duration |-> input.duration,
                         resets_cooldown |-> input.resets_cooldown,
                         stops_regeneration |-> input.stops_regeneration])
                   /\ Arrived("limit", TRUE)
                   /\ outcome' = "try_limit_queued"
              ELSE /\ outcome' = "try_limit_refused"
                   /\ UNCHANGED <<limit_events, arrival>>
  /\ UNCHANGED <<components, spend_events, change_events, lift_events, revive_events,
                 notifications, pc, delta, changed, history>>

PowerSystem_try_limit_percentage ==
  /\ pc = "idle" /\ Queued < MaxQueue
  /\ Len(limits) + Len(limit_events) < MaxLimits
  /\ \E entity \in Entities, input \in LimitInputs :
       LET percentage == input.limit_type.value
           percentage_points == (bar.base_max * percentage) \div 100
           total_current_reduction == total_reduction(limits)
           new_total_reduction == total_current_reduction + percentage_points
           new_max == Max(bar.base_max - new_total_reduction, 0)
           new_current == Min(bar.current, new_max)
       IN  /\ input.limit_type.kind = "Percentage"
           /\ IF new_max > 0 /\ new_current > 0
              THEN /\ limit_events' = Append(limit_events,
                        [entity |-> entity, id |-> input.id,
                         limit_type |-> Percentage(percentage),
                         duration |-> input.duration,
                         resets_cooldown |-> input.resets_cooldown,
                         stops_regeneration |-> input.stops_regeneration])
                   /\ Arrived("limit", TRUE)
                   /\ outcome' = "try_limit_queued"
              ELSE /\ outcome' = "try_limit_refused"
                   /\ UNCHANGED <<limit_events, arrival>>
  /\ UNCHANGED <<components, spend_events, change_events, lift_events, revive_events,
                 notifications, pc, delta, changed, history>>
(* The application granting experience (PowerLevel::add_experience).       *)
GainExperience ==
  /\ pc = "idle"
  /\ Quiet
  /\ level.level < MaxLevel
  /\ level.experience < level.experience_to_next
  /\ \E amount \in ExperienceAmounts : level' = add_experience(level, amount)
  /\ UNCHANGED <<bar, regen, limits, queues, notifications, pc, delta, changed, history,
                 arrival>>

(* A frame starts: the previous frame's notifications have been read.      *)
BeginTick ==
  /\ pc = "idle"
  /\ Quiet
  /\ pc' = "spend"
  /\ knocked_out_events' = <<>>
  /\ level_up_events' = <<>>
  /\ soft_revived' = FALSE
  /\ revived_empty' = "none"
  /\ UNCHANGED <<components, queues, delta, changed, last_applied, ko_by_limit, arrival>>

(* ---------------------------------------------------------------------- *)
(* systems.rs: the intent handlers (PowerSystemSet::Input)                 *)
(* ---------------------------------------------------------------------- *)
handle_spend_power ==
  /\ pc = "spend"
  /\ IF spend_events = <<>> THEN arrival' = arrival ELSE Served("spend")
  /\ IF spend_events = <<>>
     THEN /\ pc' = "change"
          /\ Quiet
          /\ UNCHANGED <<bar, regen, spend_events, changed>>
     ELSE LET event == Head(spend_events)
              res == spend(bar, event.amount)
          IN  /\ spend_events' = Tail(spend_events)
              /\ pc' = pc
              /\ IF event.entity = Player
                 THEN /\ bar' = res.bar
                      /\ regen' = IF res.ok THEN reset(regen) ELSE regen
                      /\ changed' = TRUE
                      /\ outcome' = IF res.ok THEN "spent" ELSE "spend_rejected"
                 ELSE /\ outcome' = "ignored"
                      /\ UNCHANGED <<bar, regen, changed>>
  /\ UNCHANGED <<level, limits, change_events, limit_events, lift_events, revive_events,
                 notifications, delta, history>>

(* Mutant of handle_power_change: a negative change that exceeds current   *)
(* drains current to 0 instead of being rejected.                          *)
handle_power_change_clamps ==
  /\ pc = "change"
  /\ IF change_events = <<>> THEN arrival' = arrival ELSE Served("change")
  /\ IF change_events = <<>>
     THEN /\ pc' = "apply"
          /\ Quiet
          /\ UNCHANGED <<bar, change_events, changed>>
     ELSE LET event == Head(change_events)
          IN  /\ change_events' = Tail(change_events)
              /\ pc' = pc
              /\ bar' = IF event.amount > 0
                        THEN add(bar, event.amount)
                        ELSE IF bar.is_knocked_out THEN bar
                        ELSE [bar EXCEPT !.current = Max(bar.current - Abs(event.amount), 0)]
              /\ changed' = TRUE
              /\ outcome' = IF event.amount > 0 THEN "added"
                            ELSE IF spend(bar, Abs(event.amount)).ok
                                 THEN "change_spent"
                                 ELSE "change_rejected"
  /\ UNCHANGED <<regen, level, limits, spend_events, limit_events, lift_events,
                 revive_events, notifications, delta, history>>
handle_power_change ==
  /\ pc = "change"
  /\ IF change_events = <<>> THEN arrival' = arrival ELSE Served("change")
  /\ IF change_events = <<>>
     THEN /\ pc' = "apply"
          /\ Quiet
          /\ UNCHANGED <<bar, change_events, changed>>
     ELSE LET event == Head(change_events)
          IN  /\ change_events' = Tail(change_events)
              /\ pc' = pc
              /\ IF event.entity = Player
                 THEN /\ bar' = IF event.amount > 0
                                THEN add(bar, event.amount)
                                ELSE spend(bar, Abs(event.amount)).bar
                      /\ changed' = TRUE
                      /\ outcome' = IF event.amount > 0 THEN "added"
                                    ELSE IF spend(bar, Abs(event.amount)).ok
                                         THEN "change_spent"
                                         ELSE "change_rejected"
                 ELSE /\ outcome' = "ignored"
                      /\ UNCHANGED <<bar, changed>>
  /\ UNCHANGED <<regen, level, limits, spend_events, limit_events, lift_events,
                 revive_events, notifications, delta, history>>

(* Mutant of apply_limit: current is not clamped to the new max.           *)
apply_limit_unclamped(b, ls, event) ==
  LET new_limit == PowerLimit_new(event.id, event.limit_type, event.duration,
                                  event.resets_cooldown, event.stops_regeneration)
      ls2 == Append(ls, [new_limit EXCEPT
                           !.power_value = IF event.limit_type.kind = "Points"
                                           THEN event.limit_type.value
                                           ELSE (b.base_max * event.limit_type.value) \div 100])
      new_max == Max(b.base_max - SumValues(ls2), 0)
      knockout == new_max <= 0 \/ b.current <= 0
  IN  [bar |-> [b EXCEPT !.max = new_max,
                         !.is_knocked_out = IF knockout THEN TRUE ELSE @],
       limits |-> ls2,
       knockout |-> knockout]

apply_limit(b, ls, event) ==
  LET new_limit == PowerLimit_new(event.id, event.limit_type, event.duration,
                                  event.resets_cooldown, event.stops_regeneration)
      ls2 == add_limit(ls, new_limit, b.base_max)
      new_max == Max(b.base_max - total_reduction(ls2), 0)
      clamped == IF b.current > new_max THEN new_max ELSE b.current
      knockout == new_max <= 0 \/ clamped <= 0
  IN  [bar |-> [b EXCEPT !.max = new_max,
                         !.current = clamped,
                         !.is_knocked_out = IF knockout THEN TRUE ELSE @],
       limits |-> ls2,
       knockout |-> knockout]

(* Mutant of handle_apply_limit: the cooldown is reset only when the       *)
(* application did not knock the entity out.                               *)
handle_apply_limit_reset_if_standing ==
  /\ pc = "apply"
  /\ IF limit_events = <<>> THEN arrival' = arrival ELSE Served("limit")
  /\ IF limit_events = <<>>
     THEN /\ pc' = "lift"
          /\ Quiet
          /\ UNCHANGED <<bar, regen, limits, limit_events, knocked_out_events, changed,
                         last_applied, ko_by_limit>>
     ELSE LET event == Head(limit_events)
              res == apply_limit(bar, limits, event)
          IN  /\ limit_events' = Tail(limit_events)
              /\ pc' = pc
              /\ IF event.entity = Player
                 THEN /\ bar' = res.bar
                      /\ limits' = res.limits
                      /\ knocked_out_events' =
                           IF res.knockout
                           THEN Append(knocked_out_events, event.entity)
                           ELSE knocked_out_events
                      /\ regen' = IF event.resets_cooldown /\ ~res.knockout
                                  THEN reset(regen) ELSE regen
                      /\ changed' = TRUE
                      /\ last_applied' =
                           [id |-> event.id, max_before |-> bar.max,
                            current_before |-> bar.current,
                            derived_before |-> derived_max(bar.base_max, limits),
                            duplicate |-> remove_limit_ok(limits, event.id)]
                      /\ ko_by_limit' = (/\ ~bar.is_knocked_out
                                         /\ bar.current > 0
                                         /\ limits = <<>>
                                         /\ res.bar.max <= 0)
                      /\ outcome' = IF res.knockout THEN "applied_knockout"
                                    ELSE "applied"
                 ELSE /\ outcome' = "ignored"
                      /\ UNCHANGED <<bar, regen, limits, knocked_out_events, changed,
                                     last_applied, ko_by_limit>>
  /\ UNCHANGED <<level, spend_events, change_events, lift_events, revive_events,
                 level_up_events, delta, soft_revived,
                 revived_empty>>
handle_apply_limit ==
  /\ pc = "apply"
  /\ IF limit_events = <<>> THEN arrival' = arrival ELSE Served("limit")
  /\ IF limit_events = <<>>
     THEN /\ pc' = "lift"
          /\ Quiet
          /\ UNCHANGED <<bar, regen, limits, limit_events, knocked_out_events, changed,
                         last_applied, ko_by_limit>>
     ELSE LET event == Head(limit_events)
              res == apply_limit(bar, limits, event)
          IN  /\ limit_events' = Tail(limit_events)
              /\ pc' = pc
              /\ IF event.entity = Player
                 THEN /\ bar' = res.bar
                      /\ limits' = res.limits
                      /\ knocked_out_events' =
                           IF res.knockout
                           THEN Append(knocked_out_events, event.entity)
                           ELSE knocked_out_events
                      /\ regen' = IF event.resets_cooldown THEN reset(regen) ELSE regen
                      /\ changed' = TRUE
                      /\ last_applied' =
                           [id |-> event.id, max_before |-> bar.max,
                            current_before |-> bar.current,
                            derived_before |-> derived_max(bar.base_max, limits),
                            duplicate |-> remove_limit_ok(limits, event.id)]
                      /\ ko_by_limit' = (/\ ~bar.is_knocked_out
                                         /\ bar.current > 0
                                         /\ limits = <<>>
                                         /\ res.bar.max <= 0)
                      /\ outcome' = IF res.knockout THEN "applied_knockout"
                                    ELSE "applied"
                 ELSE /\ outcome' = "ignored"
                      /\ UNCHANGED <<bar, regen, limits, knocked_out_events, changed,
                                     last_applied, ko_by_limit>>
  /\ UNCHANGED <<level, spend_events, change_events, lift_events, revive_events,
                 level_up_events, delta, soft_revived,
                 revived_empty>>

Aged(ls, d) ==
  [i \in 1..Len(ls) |-> IF ls[i].timed THEN [ls[i] EXCEPT !.age = @ + d] ELSE ls[i]]

(* Mutant of the recomputation: the new max is written to base_max too.    *)
recompute_max_rebases(b, ls) ==
  LET new_max == Max(b.base_max - total_reduction(ls), 0)
  IN  IF b.is_knocked_out /\ new_max > 0
      THEN [b EXCEPT !.max = new_max,
                     !.base_max = new_max,
                     !.is_knocked_out = FALSE,
                     !.current = Min(b.current, new_max)]
      ELSE [b EXCEPT !.max = new_max, !.base_max = new_max]
(* The recomputation shared by handle_lift_limit and update_limit_timers.  *)
recompute_max(b, ls) ==
  LET new_max == Max(b.base_max - total_reduction(ls), 0)
  IN  IF b.is_knocked_out /\ new_max > 0
      THEN [b EXCEPT !.max = new_max,
                     !.is_knocked_out = FALSE,
                     !.current = Min(b.current, new_max)]
      ELSE [b EXCEPT !.max = new_max]

(* Mutant of handle_lift_limit: max and the knockout are recomputed also   *)
(* when remove_limit found nothing to remove.                              *)
handle_lift_limit_recomputes ==
  /\ pc = "lift"
  /\ IF lift_events = <<>> THEN arrival' = arrival ELSE Served("lift")
  /\ IF lift_events = <<>>
     THEN /\ pc' = "revive"
          /\ Quiet
          /\ UNCHANGED <<bar, limits, lift_events, changed, ko_by_limit, soft_revived>>
     ELSE LET event == Head(lift_events)
              removed == remove_limit_ok(limits, event.id)
              ls2 == remove_limit(limits, event.id)
          IN  /\ lift_events' = Tail(lift_events)
              /\ pc' = pc
              /\ IF event.entity = Player
                 THEN /\ limits' = ls2
                      /\ bar' = recompute_max(bar, ls2)
                      /\ changed' = TRUE
                      /\ ko_by_limit' = (ko_by_limit /\ bar'.is_knocked_out)
                      /\ soft_revived' =
                           (soft_revived \/ (/\ ko_by_limit
                                             /\ Len(limits) = 1
                                             /\ bar.is_knocked_out
                                             /\ ~bar'.is_knocked_out))
                      /\ outcome' = IF removed THEN "lifted" ELSE "lift_rejected"
                 ELSE /\ outcome' = "ignored"
                      /\ UNCHANGED <<bar, limits, changed, ko_by_limit, soft_revived>>
  /\ last_applied' = NoProbe
  /\ UNCHANGED <<regen, level, spend_events, change_events, limit_events, revive_events,
                 notifications, delta, revived_empty>>
handle_lift_limit ==
  /\ pc = "lift"
  /\ IF lift_events = <<>> THEN arrival' = arrival ELSE Served("lift")
  /\ IF lift_events = <<>>
     THEN /\ pc' = "revive"
          /\ Quiet
          /\ UNCHANGED <<bar, limits, lift_events, changed, ko_by_limit, soft_revived>>
     ELSE LET event == Head(lift_events)
              removed == remove_limit_ok(limits, event.id)
              ls2 == remove_limit(limits, event.id)
          IN  /\ lift_events' = Tail(lift_events)
              /\ pc' = pc
              /\ IF event.entity = Player /\ removed
                 THEN /\ limits' = ls2
                      /\ bar' = recompute_max(bar, ls2)
                      /\ changed' = TRUE
                      /\ ko_by_limit' = (ko_by_limit /\ bar'.is_knocked_out)
                      /\ soft_revived' =
                           (soft_revived \/ (/\ ko_by_limit
                                             /\ Len(limits) = 1
                                             /\ bar.is_knocked_out
                                             /\ ~bar'.is_knocked_out))
                      /\ outcome' = "lifted"
                 ELSE /\ outcome' = IF event.entity = Player THEN "lift_rejected"
                                    ELSE "ignored"
                      /\ UNCHANGED <<bar, limits, changed, ko_by_limit, soft_revived>>
  /\ last_applied' = NoProbe
  /\ UNCHANGED <<regen, level, spend_events, change_events, limit_events, revive_events,
                 notifications, delta, revived_empty>>

handle_revive ==
  /\ pc = "revive"
  /\ IF revive_events = <<>> THEN arrival' = arrival ELSE Served("revive")
  /\ IF revive_events = <<>>
     THEN /\ pc' = "regen"
          /\ Quiet
          /\ UNCHANGED <<bar, revive_events, changed, ko_by_limit, revived_empty>>
     ELSE LET event == Head(revive_events)
          IN  /\ revive_events' = Tail(revive_events)
              /\ pc' = pc
              /\ IF event.entity = Player
                 THEN /\ bar' = revive(bar, event.power_amount)
                      /\ changed' = TRUE
                      /\ ko_by_limit' = (ko_by_limit /\ bar'.is_knocked_out)
                      /\ outcome' = IF bar.is_knocked_out THEN "revived"
                                    ELSE "revive_ignored"
                      /\ revived_empty' =
                           IF bar.is_knocked_out /\ bar.max <= 0 THEN "no_max"
                           ELSE IF bar.is_knocked_out /\ event.power_amount <= 0
                                THEN "no_power"
                                ELSE revived_empty
                 ELSE /\ outcome' = "ignored"
                      /\ UNCHANGED <<bar, changed, ko_by_limit, revived_empty>>
  /\ UNCHANGED <<regen, level, limits, spend_events, change_events, limit_events,
                 lift_events, notifications, delta, last_applied, soft_revived>>

(* ---------------------------------------------------------------------- *)
(* systems.rs: the per-frame systems (PowerSystemSet::Update)              *)
(* ---------------------------------------------------------------------- *)
(* Time supplies the frame's delta, read here and again, unchanged, by     *)
(* update_limit_timers.  The frame is cut off where time_since_spend would *)
(* pass MaxTime.                                                           *)
(* Mutant of regenerate_power: the limits are not asked whether one of     *)
(* them stops the regeneration.                                            *)
regenerate_power_unblocked ==
  /\ pc = "regen"
  /\ pc' = "timers"
  /\ \E d \in Deltas :
       /\ delta' = d
       /\ IF ~bar.is_knocked_out
          THEN LET r2 == regen_update(regen, d)
                   regen_amount == get_regen_amount(r2, d)
               IN  /\ r2.time_since_spend <= MaxTime
                   /\ regen' = r2
                   /\ IF regen_amount > 0
                      THEN bar' = add(bar, regen_amount) /\ changed' = TRUE
                      ELSE UNCHANGED <<bar, changed>>
          ELSE UNCHANGED <<bar, regen, changed>>
  /\ outcome' = IF bar' # bar THEN "regenerated" ELSE "none"
  /\ UNCHANGED <<level, limits, queues, notifications, history, arrival>>
regenerate_power ==
  /\ pc = "regen"
  /\ pc' = "timers"
  /\ \E d \in Deltas :
       /\ delta' = d
       /\ IF ~bar.is_knocked_out
          THEN LET regeneration_blocked == any_stops_regeneration(limits)
               IN  IF ~regeneration_blocked
                   THEN LET r2 == regen_update(regen, d)
                            regen_amount == get_regen_amount(r2, d)
                        IN  /\ r2.time_since_spend <= MaxTime
                            /\ regen' = r2
                            /\ IF regen_amount > 0
                               THEN bar' = add(bar, regen_amount) /\ changed' = TRUE
                               ELSE UNCHANGED <<bar, changed>>
                   ELSE UNCHANGED <<bar, regen, changed>>
          ELSE UNCHANGED <<bar, regen, changed>>
  /\ outcome' = IF bar' # bar THEN "regenerated" ELSE "none"
  /\ UNCHANGED <<level, limits, queues, notifications, history, arrival>>

(* Mutant of update_limit_timers: an expiry recomputes max but does not    *)
(* release the knockout.                                                   *)
update_limit_timers_no_revival ==
  /\ pc = "timers"
  /\ pc' = "detect"
  /\ LET res == update_timers(limits, delta)
     IN  /\ limits' = Aged(res.limits, delta)
         /\ outcome' = IF res.removed_ids # <<>> THEN "expired" ELSE "none"
         /\ IF res.removed_ids # <<>>
            THEN /\ bar' = [bar EXCEPT !.max = derived_max(bar.base_max, res.limits)]
                 /\ changed' = TRUE
                 /\ ko_by_limit' = (ko_by_limit /\ bar'.is_knocked_out)
            ELSE UNCHANGED <<bar, changed, ko_by_limit>>
  /\ UNCHANGED <<regen, level, queues, notifications, delta, last_applied,
                 soft_revived, revived_empty,
                 arrival>>
(* Mutant of update_limit_timers: the timers of a knocked-out entity's     *)
(* limits stand still.                                                     *)
update_limit_timers_unless_knocked_out ==
  /\ pc = "timers"
  /\ pc' = "detect"
  /\ LET res == IF bar.is_knocked_out
                THEN [limits |-> limits, removed_ids |-> <<>>]
                ELSE update_timers(limits, delta)
     IN  /\ limits' = IF bar.is_knocked_out THEN limits
                      ELSE Aged(res.limits, delta)
         /\ outcome' = IF res.removed_ids # <<>> THEN "expired" ELSE "none"
         /\ IF res.removed_ids # <<>>
            THEN /\ bar' = recompute_max(bar, res.limits)
                 /\ changed' = TRUE
                 /\ ko_by_limit' = (ko_by_limit /\ bar'.is_knocked_out)
            ELSE UNCHANGED <<bar, changed, ko_by_limit>>
  /\ UNCHANGED <<regen, level, queues, notifications, delta, last_applied,
                 soft_revived, revived_empty,
                 arrival>>
update_limit_timers ==
  /\ pc = "timers"
  /\ pc' = "detect"
  /\ LET res == update_timers(limits, delta)
     IN  /\ limits' = Aged(res.limits, delta)
         /\ outcome' = IF res.removed_ids # <<>> THEN "expired" ELSE "none"
         /\ IF res.removed_ids # <<>>
            THEN /\ bar' = recompute_max(bar, res.limits)
                 /\ changed' = TRUE
                 /\ ko_by_limit' = (ko_by_limit /\ bar'.is_knocked_out)
            ELSE UNCHANGED <<bar, changed, ko_by_limit>>
  /\ UNCHANGED <<regen, level, queues, notifications, delta, last_applied,
                 soft_revived, revived_empty,
                 arrival>>

(* Mutant of detect_knockout: only an exhausted capacity knocks out.       *)
detect_knockout_max_only ==
  /\ pc = "detect"
  /\ pc' = "level"
  /\ changed' = FALSE
  /\ IF changed /\ ~bar.is_knocked_out /\ bar.max <= 0
     THEN /\ bar' = [bar EXCEPT !.is_knocked_out = TRUE, !.current = 0]
          /\ knocked_out_events' = Append(knocked_out_events, Player)
          /\ ko_by_limit' = FALSE
          /\ outcome' = "knockout"
     ELSE /\ Quiet
          /\ UNCHANGED <<bar, knocked_out_events, ko_by_limit>>
  /\ UNCHANGED <<regen, level, limits, queues, level_up_events, delta,
                 last_applied, soft_revived, revived_empty, arrival>>

detect_knockout ==
  /\ pc = "detect"
  /\ pc' = "level"
  /\ changed' = FALSE
  /\ IF changed /\ ~bar.is_knocked_out /\ (bar.current <= 0 \/ bar.max <= 0)
     THEN /\ bar' = [bar EXCEPT !.is_knocked_out = TRUE, !.current = 0]
          /\ knocked_out_events' = Append(knocked_out_events, Player)
          /\ ko_by_limit' = FALSE
          /\ outcome' = "knockout"
     ELSE /\ Quiet
          /\ UNCHANGED <<bar, knocked_out_events, ko_by_limit>>
  /\ UNCHANGED <<regen, level, limits, queues, level_up_events, delta,
                 last_applied, soft_revived, revived_empty, arrival>>

(* Mutant of handle_level_up: Percentage limits are resolved again against *)
(* the new base_max.                                                       *)
handle_level_up_reresolve ==
  /\ pc = "level"
  /\ pc' = "idle"
  /\ delta' = 0
  /\ IF level.experience >= level.experience_to_next
     THEN LET res == level_up(level)
          IN  /\ level' = res.level
              /\ bar' = [bar EXCEPT !.base_max = @ + res.bonus,
                                    !.max = @ + res.bonus]
              /\ limits' = [i \in 1..Len(limits) |->
                              [limits[i] EXCEPT !.power_value =
                                 calculate_value(limits[i].limit_type, bar'.base_max)]]
              /\ changed' = TRUE
              /\ level_up_events' = Append(level_up_events,
                   [entity |-> "PLACEHOLDER", new_level |-> res.level.level,
                    power_bonus |-> res.bonus])
              /\ outcome' = "leveled"
     ELSE /\ Quiet
          /\ UNCHANGED <<bar, level, limits, changed, level_up_events>>
  /\ UNCHANGED <<regen, queues, knocked_out_events, history, arrival>>

(* Mutant of handle_level_up: a level-up that gives a knocked-out entity a *)
(* positive max releases the knockout.                                     *)
handle_level_up_revives ==
  /\ pc = "level"
  /\ pc' = "idle"
  /\ delta' = 0
  /\ IF level.experience >= level.experience_to_next
     THEN LET res == level_up(level)
          IN  /\ level' = res.level
              /\ bar' = [bar EXCEPT !.base_max = @ + res.bonus,
                                    !.max = @ + res.bonus,
                                    !.is_knocked_out =
                                       @ /\ bar.max + res.bonus <= 0]
              /\ changed' = TRUE
              /\ level_up_events' = Append(level_up_events,
                   [entity |-> "PLACEHOLDER", new_level |-> res.level.level,
                    power_bonus |-> res.bonus])
              /\ outcome' = "leveled"
     ELSE /\ Quiet
          /\ UNCHANGED <<bar, level, changed, level_up_events>>
  /\ UNCHANGED <<regen, limits, queues, knocked_out_events, history, arrival>>
(* Mutant of handle_level_up: the experience beyond the threshold is       *)
(* carried over and pays for a second level in the same tick.              *)
handle_level_up_carries ==
  /\ pc = "level"
  /\ pc' = "idle"
  /\ delta' = 0
  /\ IF level.experience >= level.experience_to_next
     THEN LET res == level_up(level)
              carried == level.experience - level.experience_to_next
              again == carried >= res.level.experience_to_next
              res2 == level_up(res.level)
              first == [entity |-> "PLACEHOLDER", new_level |-> res.level.level,
                        power_bonus |-> res.bonus]
              second == [entity |-> "PLACEHOLDER", new_level |-> res2.level.level,
                         power_bonus |-> res2.bonus]
              bonus == IF again THEN res.bonus + res2.bonus ELSE res.bonus
          IN  /\ level' = IF again THEN res2.level ELSE res.level
              /\ bar' = [bar EXCEPT !.base_max = @ + bonus, !.max = @ + bonus]
              /\ changed' = TRUE
              /\ level_up_events' =
                   IF again THEN level_up_events \o <<first, second>>
                   ELSE Append(level_up_events, first)
              /\ outcome' = "leveled"
     ELSE /\ Quiet
          /\ UNCHANGED <<bar, level, changed, level_up_events>>
  /\ UNCHANGED <<regen, limits, queues, knocked_out_events, history, arrival>>
handle_level_up ==
  /\ pc = "level"
  /\ pc' = "idle"
  /\ delta' = 0
  /\ IF level.experience >= level.experience_to_next
     THEN LET res == level_up(level)
          IN  /\ level' = res.level
              /\ bar' = [bar EXCEPT !.base_max = @ + res.bonus,
                                    !.max = @ + res.bonus]
              /\ changed' = TRUE
              /\ level_up_events' = Append(level_up_events,
                   [entity |-> "PLACEHOLDER", new_level |-> res.level.level,
                    power_bonus |-> res.bonus])
              /\ outcome' = IF level.experience > level.experience_to_next
                            THEN "leveled_discarding"
                            ELSE "leveled"
     ELSE /\ Quiet
          /\ UNCHANGED <<bar, level, changed, level_up_events>>
  /\ UNCHANGED <<regen, limits, queues, knocked_out_events, history, arrival>>

Next ==
  \/ PowerSystem_spend
  \/ PowerSystem_change
  \/ PowerSystem_limit
  \/ PowerSystem_lift
  \/ PowerSystem_revive
  \/ PowerSystem_try_spend
  \/ PowerSystem_try_limit_points
  \/ PowerSystem_try_limit_percentage
  \/ GainExperience
  \/ BeginTick
  \/ handle_spend_power
  \/ handle_power_change
  \/ handle_apply_limit
  \/ handle_lift_limit
  \/ handle_revive
  \/ regenerate_power
  \/ update_limit_timers
  \/ detect_knockout
  \/ handle_level_up

Spec == Init /\ [][Next]_vars

(* ---------------------------------------------------------------------- *)
(* An application that also writes the public events itself, addressed to  *)
(* an entity that carries no PowerBundle (despawned or never a power       *)
(* entity): the handlers' query.get_mut(event.entity) fails for it.        *)
(* ---------------------------------------------------------------------- *)
Missing == "missing"

EventWriter_write ==
  /\ pc = "idle" /\ Queued < MaxQueue
  /\ Quiet
  /\ \E kind \in {"spend", "change", "limit", "lift", "revive"} :
       /\ Arrived(kind, FALSE)
       /\ spend_events' = IF kind = "spend"
                          THEN Append(spend_events, [entity |-> Missing, amount |-> FP(50)])
                          ELSE spend_events
       /\ change_events' = IF kind = "change"
                           THEN Append(change_events,
                                       [entity |-> Missing, amount |-> 0 - FP(50)])
                           ELSE change_events
       /\ limit_events' = IF kind = "limit"
                          THEN Append(limit_events,
                                 [entity |-> Missing, id |-> 1,
                                  limit_type |-> Points(FP(110)), duration |-> NoDuration,
                                  resets_cooldown |-> TRUE, stops_regeneration |-> FALSE])
                          ELSE limit_events
       /\ lift_events' = IF kind = "lift"
                         THEN Append(lift_events, [entity |-> Missing, id |-> 1])
                         ELSE lift_events
       /\ revive_events' = IF kind = "revive"
                           THEN Append(revive_events,
                                       [entity |-> Missing, power_amount |-> FP(50)])
                           ELSE revive_events
  /\ UNCHANGED <<components, notifications, pc, delta, changed, history>>

NextRaw == Next \/ EventWriter_write

SpecRaw == Init /\ [][NextRaw]_vars
(* ---------------------------------------------------------------------- *)
(* The component methods called one at a time.  The state is a bundle      *)
(* whose limit stack holds up to MaxStack limits added by add_limit, whose *)
(* PowerBar has the max that this stack leaves of a base_max of 100, and   *)
(* whose regeneration was built by PowerBundle::custom and is Idle.  A     *)
(* call leaves its argument in the event queue of its kind (spend_events,  *)
(* lift_events) or in delta, and its return value in outcome; pc names the *)
(* method called last.  spend is called once on the drawn state; update,   *)
(* remove_limit and update_timers are called any number of times.          *)
(* ---------------------------------------------------------------------- *)
MaxStack == 3

UnitSpendAmounts == {0 - FP(50), 0 - FP(10), FP(50)}
UnitBaseRates == {FP(5), FP(15)}
UnitDeltas == {1, 2}

RECURSIVE BuildStack(_, _)
BuildStack(inputs, base_max) ==
  IF inputs = <<>> THEN <<>>
  ELSE LET input == inputs[Len(inputs)]
       IN  add_limit(BuildStack(SubSeq(inputs, 1, Len(inputs) - 1), base_max),
                     PowerLimit_new(input.id, input.limit_type, input.duration,
                                    input.resets_cooldown, input.stops_regeneration),
                     base_max)

UnitStacks ==
  { BuildStack(inputs, FP(100)) :
      inputs \in UNION { [1..n -> LimitInputs] : n \in 0..MaxStack } }

UnitInit ==
  /\ limits \in UnitStacks
  /\ \E current \in {0, FP(50), FP(100)}, knocked_out \in BOOLEAN :
       LET b == PowerBar_new(FP(100))
           max == derived_max(b.base_max, limits)
       IN  /\ knocked_out => current = 0
           /\ max = 0 => knocked_out
           /\ bar = [b EXCEPT !.max = max,
                              !.current = Min(current, max),
                              !.is_knocked_out = knocked_out]
  /\ \E regen_delay \in RegenDelays, base_regen_rate \in UnitBaseRates :
       regen = PowerBundle_custom(FP(100), regen_delay, base_regen_rate,
                                  FP(20)).power_regeneration
  /\ level = PowerLevel_default
  /\ spend_events = <<>>
  /\ change_events = <<>>
  /\ limit_events = <<>>
  /\ lift_events = <<>>
  /\ revive_events = <<>>
  /\ knocked_out_events = <<>>
  /\ level_up_events = <<>>
  /\ pc = "unit"
  /\ delta = 0
  /\ changed = TRUE
  /\ last_applied = NoProbe
  /\ ko_by_limit = FALSE
  /\ soft_revived = FALSE
  /\ revived_empty = "none"
  /\ outcome = "none"
  /\ arrival = <<>>

Unit_spend ==
  /\ pc = "unit"
  /\ pc' = "unit_spend"
  /\ \E amount \in UnitSpendAmounts :
       /\ spend_events' = <<[entity |-> Player, amount |-> amount]>>
       /\ bar' = spend(bar, amount).bar
       /\ outcome' = spend(bar, amount).ok
  /\ UNCHANGED <<regen, level, limits, change_events, limit_events, lift_events,
                 revive_events, notifications, delta, changed, history, arrival>>

Unit_update ==
  /\ pc \in {"unit", "unit_update"}
  /\ pc' = "unit_update"
  /\ \E d \in UnitDeltas :
       /\ delta' = d
       /\ regen' = regen_update(regen, d)
       /\ regen'.time_since_spend <= MaxTime
  /\ UNCHANGED <<bar, level, limits, queues, notifications, changed, history, outcome,
                 arrival>>

Unit_remove_limit ==
  /\ pc \in {"unit", "unit_remove_limit"}
  /\ pc' = "unit_remove_limit"
  /\ \E id \in LiftIds :
       /\ lift_events' = <<[entity |-> Player, id |-> id]>>
       /\ limits' = remove_limit(limits, id)
       /\ outcome' = remove_limit_ok(limits, id)
  /\ UNCHANGED <<bar, regen, level, spend_events, change_events, limit_events,
                 revive_events, notifications, delta, changed, history, arrival>>

Unit_update_timers ==
  /\ pc \in {"unit", "unit_update_timers"}
  /\ pc' = "unit_update_timers"
  /\ \E d \in UnitDeltas :
       /\ delta' = d
       /\ limits' = update_timers(limits, d).limits
       /\ outcome' = update_timers(limits, d).removed_ids
  /\ UNCHANGED <<bar, regen, level, queues, notifications, changed, history, arrival>>

UnitNext ==
  \/ Unit_spend
  \/ Unit_update
  \/ Unit_remove_limit
  \/ Unit_update_timers

SpecUnit == UnitInit /\ [][UnitNext]_vars
(* ---------------------------------------------------------------------- *)
(* Properties                                                              *)
(* ---------------------------------------------------------------------- *)
EndOfTick == pc = "idle"

Key(l) == <<l.id, l.limit_type, l.power_value>>
Keys(ls) == [i \in 1..Len(ls) |-> Key(ls[i])]

RECURSIVE IsSubseq(_, _)
IsSubseq(a, b) ==
  IF a = <<>> THEN TRUE
  ELSE IF b = <<>> THEN FALSE
  ELSE IF Head(a) = Head(b) THEN IsSubseq(Tail(a), Tail(b))
  ELSE IsSubseq(a, Tail(b))

Resolved(limit_type, base_max) ==
  IF limit_type.kind = "Points" THEN limit_type.value
  ELSE (base_max * limit_type.value) \div 100

RECURSIVE Reduction(_)
Reduction(ls) == IF ls = <<>> THEN 0 ELSE ls[1].power_value + Reduction(Tail(ls))

SpendStep == pc = "spend" /\ spend_events # <<>> /\ Head(spend_events).entity = Player
ApplyStep == pc = "apply" /\ limit_events # <<>> /\ Head(limit_events).entity = Player
LiftStep == pc = "lift" /\ lift_events # <<>> /\ Head(lift_events).entity = Player

(* C1: at the end of every tick 0 <= current <= max <= base_max.           *)
C1_Bounds ==
  EndOfTick => /\ 0 <= bar.current
               /\ bar.current <= bar.max
               /\ bar.max <= bar.base_max

(* C2: at the end of every tick max = max(0, base_max - total_reduction),  *)
(* also after a level-up.                                                  *)
C2_DerivedMax ==
  EndOfTick => bar.max = Max(0, bar.base_max - Reduction(limits))

(* C3: at the end of every tick an entity with current <= 0 or max <= 0 is *)
(* knocked out, so one that is not knocked out has current > 0 and         *)
(* max > 0.                                                                *)
C3_KnockoutFlagged ==
  EndOfTick =>
    /\ (bar.current <= 0 \/ bar.max <= 0) => bar.is_knocked_out
    /\ ~bar.is_knocked_out => (bar.current > 0 /\ bar.max > 0)

(* C3 witness: a tick has ended knocked out although no limit is in the    *)
(* stack and max is the whole base_max: current alone had reached 0.       *)
C3_Witness ==
  /\ EndOfTick
  /\ bar.is_knocked_out
  /\ limits = <<>>
  /\ bar.max = bar.base_max /\ bar.max > 0
  /\ knocked_out_events = <<Player>>

(* C4: a spend on a knocked-out entity, or of more than current, fails and *)
(* leaves current, max, base_max, the knockout flag and the regeneration   *)
(* state (and level and limits) as they were.                              *)
C4_RejectedSpend ==
  [][ (SpendStep /\ (bar.is_knocked_out \/ bar.current < Head(spend_events).amount))
        => /\ outcome' = "spend_rejected"
           /\ bar' = bar
           /\ regen' = regen
           /\ level' = level
           /\ limits' = limits ]_vars

(* C4 witness: a spend has just been rejected for lack of power on an      *)
(* entity that is not knocked out and whose regeneration is ramping.       *)
C4_Witness ==
  /\ pc = "spend" /\ outcome = "spend_rejected"
  /\ ~bar.is_knocked_out /\ bar.current > 0
  /\ regen.is_active /\ regen.current_rate > 0

(* C5: a spend of 0 <= amount <= current on an entity that is not knocked  *)
(* out succeeds, sets current to current - amount (not below 0), leaves    *)
(* max, base_max, the knockout flag and the limit stack unchanged and      *)
(* resets the regeneration state to Idle.                                  *)
C5_SuccessfulSpend ==
  [][ (/\ SpendStep
       /\ ~bar.is_knocked_out
       /\ 0 <= Head(spend_events).amount
       /\ Head(spend_events).amount <= bar.current)
        => /\ outcome' = "spent"
           /\ bar'.current = bar.current - Head(spend_events).amount
           /\ bar'.current >= 0
           /\ bar'.max = bar.max
           /\ bar'.base_max = bar.base_max
           /\ bar'.is_knocked_out = bar.is_knocked_out
           /\ limits' = limits
           /\ regen'.time_since_spend = 0
           /\ regen'.current_rate = 0
           /\ regen'.is_active = FALSE ]_vars

(* C5 witness: a spend has just succeeded and taken the whole current      *)
(* power.                                                                  *)
C5_Witness ==
  /\ pc = "spend" /\ outcome = "spent"
  /\ bar.current = 0 /\ bar.max > 0
  /\ regen.time_since_spend = 0 /\ ~regen.is_active

C7_SoftRevivalLasts ==
  (EndOfTick /\ soft_revived) => ~bar.is_knocked_out

(* C8: the power_value of a limit is set when the limit is added, for a    *)
(* Percentage limit to base_max at insertion * percent / 100, and no step  *)
(* changes it while the limit is in the stack.                             *)
C8_FrozenValue ==
  [][ IF Len(limits') = Len(limits) + 1
      THEN /\ ApplyStep
           /\ Keys(SubSeq(limits', 1, Len(limits))) = Keys(limits)
           /\ limits'[Len(limits')].power_value =
                Resolved(Head(limit_events).limit_type, bar.base_max)
      ELSE IsSubseq(Keys(limits'), Keys(limits)) ]_vars

(* C8 witness: after a level-up the stack holds a 25% limit whose value is *)
(* still 25% of the base_max at its insertion, not of the present one.     *)
C8_Witness ==
  /\ EndOfTick
  /\ level.level = 2
  /\ \E i \in 1..Len(limits) :
       /\ limits[i].limit_type = Percentage(25)
       /\ limits[i].power_value = FP(25)
       /\ Resolved(limits[i].limit_type, bar.base_max) # FP(25)

(* C9: applying a limit appends it, sets max = max(0, base_max -           *)
(* total_reduction) and current = min(current, max); a result with         *)
(* max <= 0 or current <= 0 flags the knockout and emits the notification; *)
(* a Points limit of at least base_max gives max = 0, current = 0 and      *)
(* knockout.                                                               *)
C9_ApplyLimit ==
  [][ ApplyStep =>
        LET event == Head(limit_events)
            value == Resolved(event.limit_type, bar.base_max)
            new_max == Max(0, bar.base_max - (Reduction(limits) + value))
        IN  /\ Len(limits') = Len(limits) + 1
            /\ SubSeq(limits', 1, Len(limits)) = limits
            /\ limits'[Len(limits')].id = event.id
            /\ limits'[Len(limits')].limit_type = event.limit_type
            /\ limits'[Len(limits')].power_value = value
            /\ bar'.max = new_max
            /\ bar'.current = Min(bar.current, new_max)
            /\ (bar'.max <= 0 \/ bar'.current <= 0)
                 => /\ bar'.is_knocked_out
                    /\ knocked_out_events' = Append(knocked_out_events, Player)
            /\ (event.limit_type.kind = "Points" /\ event.limit_type.value >= bar.base_max)
                 => /\ bar'.max = 0
                    /\ bar'.current = 0
                    /\ bar'.is_knocked_out ]_vars

(* C9 witness: a Points limit has just been applied to an entity that had  *)
(* power and was not knocked out, and has taken max and current to 0.      *)
C9_Witness ==
  /\ pc = "apply" /\ outcome = "applied_knockout"
  /\ last_applied.current_before > 0
  /\ limits[Len(limits)].limit_type.kind = "Points"
  /\ bar.max = 0 /\ bar.current = 0 /\ bar.is_knocked_out
  /\ knocked_out_events = <<Player>>

(* C10: a timed limit of duration D is in the stack at the end of every    *)
(* tick at which the time accumulated since its application is < D and is  *)
(* gone at the end of the first tick at which it is >= D; max is then      *)
(* recomputed from the limits that remain.                                 *)
C10_TimedLimit ==
  [][ /\ pc = "timers" =>
           LET Expired(l) == l.timed /\ l.age + delta >= l.duration
               Stays(l) == ~Expired(l)
               kept == SelectSeq(limits, Stays)
           IN  /\ Len(limits') = Len(kept)
               /\ \A i \in 1..Len(kept) :
                    /\ Key(limits'[i]) = Key(kept[i])
                    /\ limits'[i].duration = kept[i].duration
                    /\ kept[i].timed => limits'[i].age = kept[i].age + delta
               /\ Len(kept) < Len(limits)
                    => bar'.max = Max(0, bar.base_max - Reduction(limits'))
      /\ pc' = "idle" =>
           \A i \in 1..Len(limits') :
              limits'[i].timed => limits'[i].age < limits'[i].duration ]_vars

(* C10 witness: the timer sweep has just removed an expired limit while a  *)
(* timed limit that has not run its duration stays in the stack.           *)
C10_Witness ==
  /\ pc = "detect" /\ outcome = "expired"
  /\ Len(limits) = 1
  /\ limits[1].timed /\ limits[1].age > 0


RegenStep == pc = "regen"
Suppressed == bar.is_knocked_out \/ (\E i \in 1..Len(limits) : limits[i].stops_regeneration)

(* C11: the time accumulated since the spend is time_since_spend, which a  *)
(* successful spend sets to 0 and each regeneration phase advances by the  *)
(* frame's delta.  In a tick at which it is still < regen_delay the        *)
(* regeneration phase adds no power; in a tick at which it is              *)
(* >= regen_delay (entity not knocked out, no regeneration-stopping limit, *)
(* delta > 0) the phase adds a strictly positive amount while current is   *)
(* below max, and never takes current past max.  The regeneration is Idle  *)
(* as long as the accumulated time is below the delay.                     *)
C11_RegenAfterDelay ==
  [][ RegenStep =>
        /\ (regen.time_since_spend < regen.regen_delay => ~regen.is_active)
        /\ (~Suppressed /\ delta' > 0) =>
             /\ regen'.time_since_spend = regen.time_since_spend + delta'
             /\ regen'.time_since_spend < regen.regen_delay
                  => bar' = bar /\ ~regen'.is_active
             /\ (regen'.time_since_spend >= regen.regen_delay /\ bar.current < bar.max)
                  => /\ bar'.current > bar.current
                     /\ bar'.current <= bar.max ]_vars

(* C11 witness: with a regen_delay of 7.5 s, the first frame after the     *)
(* spend (5 s) has left the regeneration Idle and the second frame (5 s    *)
(* more) has just added power to an entity still below max.                *)
C11_Witness ==
  /\ pc = "timers" /\ outcome = "regenerated"
  /\ regen.regen_delay = 3
  /\ regen.time_since_spend = 4 /\ delta = 2
  /\ regen.is_active
  /\ ~bar.is_knocked_out
  /\ bar.current < bar.max /\ bar.current > 0


LevelStep == pc = "level" /\ level.experience >= level.experience_to_next

Kinds == {"spend", "change", "limit", "lift", "revive"}

Handling(kind) ==
  \/ kind = "spend" /\ pc = "spend" /\ spend_events # <<>>
  \/ kind = "change" /\ pc = "change" /\ change_events # <<>>
  \/ kind = "limit" /\ pc = "apply" /\ limit_events # <<>>
  \/ kind = "lift" /\ pc = "lift" /\ lift_events # <<>>
  \/ kind = "revive" /\ pc = "revive" /\ revive_events # <<>>

(* C13: within a tick the queued intents of all kinds are applied in the   *)
(* order in which they were queued: the intent a handler applies is the    *)
(* oldest intent of any kind that is still waiting.                        *)
C13_ArrivalOrder ==
  [][ \A kind \in Kinds : Handling(kind) => Head(arrival).kind = kind ]_vars


Tried(kind) == arrival[FirstOf(kind)].tried

(* C14: a limit that a try call has queued does not knock out the entity   *)
(* when it is applied, whatever else was queued in the same tick; a try    *)
(* call whose pre-check gives max <= 0 or current <= 0 returns false and   *)
(* queues nothing.                                                         *)
C14_TryLimitNeverKnocksOut ==
  [][ /\ (ApplyStep /\ Tried("limit"))
           => /\ outcome' = "applied"
              /\ bar'.max > 0 /\ bar'.current > 0
              /\ knocked_out_events' = knocked_out_events
      /\ (pc = "idle" /\ outcome' = "try_limit_refused")
           => queues' = queues ]_vars

(* C15: a spend that try_spend has queued (try_spend returned true)        *)
(* succeeds when it is applied and takes amount from current, whatever     *)
(* else was queued in the same tick; when try_spend returns false no spend *)
(* intent is queued.                                                       *)
C15_TrySpendSucceeds ==
  [][ /\ (SpendStep /\ Tried("spend"))
           => /\ outcome' = "spent"
              /\ bar'.current = bar.current - Head(spend_events).amount
      /\ (pc = "idle" /\ outcome' = "try_spend_refused")
           => queues' = queues ]_vars


(* C16: every level-up notification names the entity that leveled up, its  *)
(* new level and the bonus added to its base_max; every knockout           *)
(* notification names the entity that was knocked out.                     *)
C16_NotificationsNameEntity ==
  [][ /\ level_up_events' # level_up_events /\ level_up_events' # <<>>
           => LET event == level_up_events'[Len(level_up_events')]
              IN  /\ event.entity \in Entities
                  /\ event.new_level = level'.level
                  /\ level'.level = level.level + 1
                  /\ bar'.base_max = bar.base_max + event.power_bonus
      /\ knocked_out_events' # knocked_out_events /\ knocked_out_events' # <<>>
           => /\ knocked_out_events'[Len(knocked_out_events')] \in Entities
              /\ bar'.is_knocked_out ]_vars

(* C17: the regeneration state is reset to Idle whenever power is actually *)
(* spent, by a spend intent or by a change intent with a negative amount,  *)
(* and whenever a limit with resets_cooldown is applied.                   *)
C17_RegenReset ==
  [][ (\/ outcome' = "spent"
       \/ outcome' = "change_spent" /\ bar'.current < bar.current
       \/ ApplyStep /\ Head(limit_events).resets_cooldown)
        => /\ regen'.time_since_spend = 0
           /\ regen'.current_rate = 0
           /\ regen'.is_active = FALSE ]_vars


(* C18: in a tick in which the entity is knocked out, or in which a limit  *)
(* of its stack has stops_regeneration, the regeneration phase changes     *)
(* nothing: time_since_spend, current_rate and is_active stay as they are  *)
(* and current gets no power.                                              *)
C18_RegenSuppressed ==
  [][ (RegenStep /\ Suppressed)
        => /\ regen' = regen
           /\ bar' = bar
           /\ outcome' = "none" ]_vars

(* C18 witness: the regeneration phase has just run on an entity that is   *)
(* not knocked out, is below max and has passed its delay, but carries a   *)
(* limit that stops the regeneration: the time has not advanced.           *)
C18_Witness ==
  /\ pc = "timers" /\ outcome = "none"
  /\ ~bar.is_knocked_out
  /\ bar.current > 0 /\ bar.current < bar.max
  /\ \E i \in 1..Len(limits) : limits[i].stops_regeneration
  /\ regen.is_active /\ regen.time_since_spend = 2 /\ delta = 4


ReviveStep == pc = "revive" /\ revive_events # <<>> /\ Head(revive_events).entity = Player
ChangeStep == pc = "change" /\ change_events # <<>> /\ Head(change_events).entity = Player

(* C19: a revive intent on an entity that is not knocked out changes       *)
(* nothing; on a knocked-out entity it clears the knockout flag and sets   *)
(* current = min(power_amount, max), leaving max, base_max, the limit      *)
(* stack and the regeneration state unchanged.                             *)
C19_Revive ==
  [][ ReviveStep =>
        /\ limits' = limits
        /\ regen' = regen
        /\ level' = level
        /\ bar'.max = bar.max
        /\ bar'.base_max = bar.base_max
        /\ IF bar.is_knocked_out
           THEN /\ ~bar'.is_knocked_out
                /\ bar'.current = Min(Head(revive_events).power_amount, bar.max)
           ELSE bar' = bar ]_vars

(* C19 witness: a revive for 50 has just revived an entity whose max is    *)
(* below 50 (a limit is in the stack), so current is max.                  *)
C19_Witness ==
  /\ pc = "revive" /\ outcome = "revived"
  /\ ~bar.is_knocked_out
  /\ limits # <<>>
  /\ bar.max > 0 /\ bar.max < FP(50)
  /\ bar.current = bar.max

(* C20: a change intent with amount > 0 has the effect of add(amount):     *)
(* nothing while knocked out, else current = min(max, current + amount); a *)
(* change intent with amount <= 0 has the effect of spend(|amount|) on the *)
(* power bar: rejected, leaving current unchanged, when the entity is      *)
(* knocked out or |amount| exceeds current, else current decreases by      *)
(* |amount|.  Nothing but current changes.                                 *)
C20_Change ==
  [][ ChangeStep =>
        LET amount == Head(change_events).amount
            magnitude == IF amount < 0 THEN 0 - amount ELSE amount
        IN  /\ bar'.max = bar.max
            /\ bar'.base_max = bar.base_max
            /\ bar'.is_knocked_out = bar.is_knocked_out
            /\ limits' = limits
            /\ IF bar.is_knocked_out THEN bar'.current = bar.current
               ELSE IF amount > 0
                    THEN bar'.current = Min(bar.max, bar.current + amount)
               ELSE IF magnitude > bar.current
                    THEN bar'.current = bar.current
               ELSE bar'.current = bar.current - magnitude ]_vars

(* C20 witness: a negative change larger than current has just been        *)
(* rejected on an entity that is not knocked out and still has power.      *)
C20_Witness ==
  /\ pc = "change" /\ outcome = "change_rejected"
  /\ ~bar.is_knocked_out
  /\ bar.current > 0 /\ bar.current < FP(50)


SpendCall == pc = "unit" /\ pc' = "unit_spend"
UpdateCall == pc \in {"unit", "unit_update"} /\ pc' = "unit_update" /\ delta' > 0
RemoveCall == pc \in {"unit", "unit_remove_limit"} /\ pc' = "unit_remove_limit"
SweepCall == pc \in {"unit", "unit_update_timers"} /\ pc' = "unit_update_timers"

(* C21: for an amount < 0, spend(amount) leaves the power bar as           *)
(* add(-amount) would: unchanged when the entity is knocked out, else      *)
(* current = min(max, current - amount), so current stays <= max.          *)
C21_NegativeSpendIsAdd ==
  [][ (SpendCall /\ spend_events'[1].amount < 0)
        => LET amount == spend_events'[1].amount
           IN  /\ bar' = IF bar.is_knocked_out THEN bar
                         ELSE [bar EXCEPT !.current = Min(bar.max, bar.current - amount)]
               /\ bar'.current <= bar'.max ]_vars


HeadOf(kind) ==
  CASE kind = "spend" -> Head(spend_events)
    [] kind = "change" -> Head(change_events)
    [] kind = "limit" -> Head(limit_events)
    [] kind = "lift" -> Head(lift_events)
    [] kind = "revive" -> Head(revive_events)

(* The handler of the kind has consumed the first intent of its queue and  *)
(* nothing else: the other intents are still queued and the handler is     *)
(* still the system that runs.                                             *)
OnlyConsumed(kind) ==
  /\ pc' = pc
  /\ spend_events' = IF kind = "spend" THEN Tail(spend_events) ELSE spend_events
  /\ change_events' = IF kind = "change" THEN Tail(change_events) ELSE change_events
  /\ limit_events' = IF kind = "limit" THEN Tail(limit_events) ELSE limit_events
  /\ lift_events' = IF kind = "lift" THEN Tail(lift_events) ELSE lift_events
  /\ revive_events' = IF kind = "revive" THEN Tail(revive_events) ELSE revive_events

(* C22: a lift-limit whose id is not in the stack leaves max, current, the *)
(* knockout flag and the stack unchanged (no recomputation, no soft        *)
(* revival); an intent of any kind addressed to an entity that does not    *)
(* exist is ignored; in both cases nothing but that intent leaves the      *)
(* queues, no notification is emitted and the tick goes on with the same   *)
(* handler.                                                                *)
C22_RejectedIntent ==
  [][ /\ (/\ Handling("lift")
          /\ \A i \in 1..Len(limits) : limits[i].id # Head(lift_events).id)
           => /\ components' = components
              /\ notifications' = notifications
              /\ soft_revived' = soft_revived
              /\ OnlyConsumed("lift")
      /\ \A kind \in Kinds :
           (Handling(kind) /\ HeadOf(kind).entity \notin Entities)
             => /\ components' = components
                /\ notifications' = notifications
                /\ soft_revived' = soft_revived
                /\ OnlyConsumed(kind) ]_vars

(* C22 witness: a lift of an id that is not in the stack has just been     *)
(* rejected on an entity that is knocked out with max > 0 (a recomputation *)
(* would have revived it), and a revive addressed to a missing entity is   *)
(* still queued behind it.                                                 *)
C22_Witness ==
  /\ pc = "lift" /\ outcome = "lift_rejected"
  /\ bar.is_knocked_out /\ bar.max > 0
  /\ revive_events # <<>> /\ Head(revive_events).entity = Missing


(* C23: remove_limit(id) removes exactly the earliest-inserted entry with  *)
(* that id and returns true, or removes nothing and returns false when no  *)
(* entry has the id; later entries with the same id stay and keep          *)
(* contributing to total_reduction, and the remaining entries keep their   *)
(* order.                                                                  *)
C23_RemoveFirstMatch ==
  [][ RemoveCall =>
        LET id == lift_events'[1].id
            matches == {i \in 1..Len(limits) : limits[i].id = id}
        IN  IF matches = {}
            THEN limits' = limits /\ outcome' = FALSE
            ELSE LET first == CHOOSE i \in matches : \A j \in matches : i <= j
                 IN  /\ outcome' = TRUE
                     /\ Len(limits') = Len(limits) - 1
                     /\ \A i \in 1..Len(limits') :
                          limits'[i] = IF i < first THEN limits[i] ELSE limits[i + 1]
                     /\ Reduction(limits') = Reduction(limits) - limits[first].power_value ]_vars

(* C23 witness: remove_limit has just removed the first of two entries     *)
(* with the same id from a stack of three; the later entry with that id    *)
(* and an entry with another id remain.                                    *)
C23_Witness ==
  /\ pc = "unit_remove_limit" /\ outcome = TRUE
  /\ Len(limits) = 2
  /\ \E i, j \in 1..2 : /\ limits[i].id = lift_events[1].id
                        /\ limits[j].id # lift_events[1].id


(* C24: base_max is changed only by a level-up and only upwards: every     *)
(* step that changes it is the leveling phase finding enough experience,   *)
(* and no step lowers it.                                                  *)
C24_BaseMaxOnlyByLevelUp ==
  [][ /\ bar'.base_max >= bar.base_max
      /\ bar'.base_max # bar.base_max => LevelStep ]_vars

(* C24 witness: a tick has just ended with a level-up: base_max has grown  *)
(* while a limit in the stack still holds max below it.                    *)
C24_Witness ==
  /\ pc = "idle" /\ outcome = "leveled"
  /\ bar.base_max > FP(100)
  /\ limits # <<>>
  /\ bar.max < bar.base_max /\ bar.max > 0


(* C25: in every regeneration state reached from Idle by update calls,     *)
(* current_rate is 0 while the ramp has not started (is_active false) and  *)
(* lies between base_rate and max_rate once it has (is_active true): the   *)
(* first active tick starts the rate at base_rate, not below it.           *)
C25_RateRange ==
  /\ ~regen.is_active => regen.current_rate = 0
  /\ regen.is_active => /\ regen.base_rate <= regen.current_rate
                        /\ regen.current_rate <= regen.max_rate


(* C26: every knockout notification corresponds to a transition from not   *)
(* knocked out to knocked out: a step that emits one (apply-limit handling *)
(* or the knockout-detection sweep) emits exactly one, for an entity whose *)
(* flag was not set before the step and is set after it, and the sweep     *)
(* sets current to 0.                                                      *)
C26_KnockoutIsTransition ==
  [][ (pc # "idle" /\ knocked_out_events' # knocked_out_events)
        => /\ knocked_out_events' = Append(knocked_out_events, Player)
           /\ ~bar.is_knocked_out
           /\ bar'.is_knocked_out
           /\ pc = "detect" => bar'.current = 0 ]_vars


SweepStep == pc = "timers"

(* C27: when the timer sweep removes at least one expired limit, max is    *)
(* recomputed as max(0, base_max - total_reduction) and, if the entity is  *)
(* knocked out and the new max > 0, the knockout flag is cleared and       *)
(* current = min(current, max), as for a lift; when no limit expires the   *)
(* sweep leaves max, current and the knockout flag unchanged.              *)
C27_SweepRecomputes ==
  [][ SweepStep =>
        IF Len(limits') < Len(limits)
        THEN /\ bar'.max = Max(0, bar.base_max - Reduction(limits'))
             /\ bar'.base_max = bar.base_max
             /\ IF bar.is_knocked_out /\ bar'.max > 0
                THEN /\ ~bar'.is_knocked_out
                     /\ bar'.current = Min(bar.current, bar'.max)
                ELSE /\ bar'.is_knocked_out = bar.is_knocked_out
                     /\ bar'.current = bar.current
        ELSE bar' = bar ]_vars

(* C27 witness: the sweep has just removed an expired limit from an entity *)
(* that no notification of this tick concerns and has left it free of the  *)
(* knockout with max > 0 and the current of 0 it had while knocked out.    *)
C27_Witness ==
  /\ pc = "detect" /\ outcome = "expired"
  /\ ~bar.is_knocked_out
  /\ bar.max > 0 /\ bar.current = 0
  /\ knocked_out_events = <<>>


(* C28: update_timers(delta) removes exactly the timed entries whose timer *)
(* has finished after this tick of delta and returns their ids; permanent  *)
(* entries are never removed, entries whose timer has not finished stay    *)
(* (with their timer advanced), and the remaining entries keep their       *)
(* order.                                                                  *)
C28_UpdateTimers ==
  [][ SweepCall =>
        LET Finished(l) == l.timed /\ l.elapsed + delta' >= l.duration
            Unfinished(l) == ~Finished(l)
            Permanent(l) == ~l.timed
            kept == SelectSeq(limits, Unfinished)
            gone == SelectSeq(limits, Finished)
        IN  /\ outcome' = [i \in 1..Len(gone) |-> gone[i].id]
            /\ Len(limits') = Len(kept)
            /\ \A i \in 1..Len(kept) :
                 limits'[i] = IF kept[i].timed
                              THEN [kept[i] EXCEPT !.elapsed = @ + delta']
                              ELSE kept[i]
            /\ SelectSeq(limits', Permanent) = SelectSeq(limits, Permanent) ]_vars

(* C28 witness: a sweep has just removed and reported one expired entry    *)
(* from a stack of three; a permanent entry and a timed entry whose timer  *)
(* is running stay, in that order.                                         *)
C28_Witness ==
  /\ pc = "unit_update_timers" /\ outcome # <<>>
  /\ Len(limits) = 2
  /\ ~limits[1].timed
  /\ limits[2].timed /\ limits[2].elapsed > 0


(* C29: when the leveling phase finds experience >= experience_to_next it  *)
(* increments level by 1, sets experience to 0, multiplies                 *)
(* experience_to_next by 1.5, adds one and the same bonus to base_max and  *)
(* max, leaves current, the knockout flag and the limit stack unchanged    *)
(* and emits exactly one level-up notification; otherwise it changes       *)
(* nothing and emits nothing.                                              *)
C29_LevelingPhase ==
  [][ pc = "level" =>
        IF level.experience >= level.experience_to_next
        THEN /\ level'.level = level.level + 1
             /\ level'.experience = 0
             /\ level'.experience_to_next = (level.experience_to_next * 3) \div 2
             /\ bar'.base_max > bar.base_max
             /\ bar'.max - bar.max = bar'.base_max - bar.base_max
             /\ bar'.current = bar.current
             /\ bar'.is_knocked_out = bar.is_knocked_out
             /\ limits' = limits
             /\ Len(level_up_events') = Len(level_up_events) + 1
             /\ SubSeq(level_up_events', 1, Len(level_up_events)) = level_up_events
             /\ level_up_events'[Len(level_up_events')].new_level = level'.level
             /\ level_up_events'[Len(level_up_events')].power_bonus
                  = bar'.base_max - bar.base_max
        ELSE /\ level' = level
             /\ bar' = bar
             /\ limits' = limits
             /\ level_up_events' = level_up_events ]_vars

(* C29 witness: the leveling phase has just leveled up an entity that is   *)
(* knocked out: one notification, level 2, experience 0, the next          *)
(* threshold at 150, and current still 0.                                  *)
C29_Witness ==
  /\ pc = "idle" /\ outcome = "leveled"
  /\ Len(level_up_events) = 1
  /\ level = [level |-> 2, experience |-> 0, experience_to_next |-> FP(150)]
  /\ bar.is_knocked_out /\ bar.current = 0

(* C30: applying a limit with resets_cooldown = true resets the            *)
(* regeneration state to Idle whether or not the application knocks the    *)
(* entity out; applying one with resets_cooldown = false leaves            *)
(* time_since_spend, current_rate and is_active unchanged.                 *)
C30_ResetsCooldown ==
  [][ ApplyStep =>
        IF Head(limit_events).resets_cooldown
        THEN /\ regen'.time_since_spend = 0
             /\ regen'.current_rate = 0
             /\ regen'.is_active = FALSE
             /\ regen'.regen_delay = regen.regen_delay
        ELSE regen' = regen ]_vars

(* C30 witness: a limit with resets_cooldown has just been applied to an   *)
(* entity that had power, has knocked it out, and the regeneration is      *)
(* Idle.                                                                   *)
C30_Witness ==
  /\ pc = "apply" /\ outcome = "applied_knockout"
  /\ limits[Len(limits)].resets_cooldown
  /\ last_applied.current_before > 0 /\ last_applied.max_before > 0
  /\ regen.time_since_spend = 0 /\ regen.current_rate = 0 /\ ~regen.is_active


(* C31: for every amount >= 0, can_afford(amount) is true exactly when     *)
(* PowerBar::spend(amount) on the same state would succeed, the boundary   *)
(* current = amount included.                                              *)
C31_CanAffordIsSpend ==
  \A amount \in SpendAmounts \cup {0} :
    can_afford(amount) <=> spend(bar, amount).ok


(* C32: a set knockout flag is cleared only by a revive intent that is     *)
(* applied, or by a lift or a timer expiry after which the recomputed max  *)
(* is positive; no spend, change, apply-limit, regeneration or level-up    *)
(* step clears it, not even a level-up that raises max from 0.             *)
C32_KnockoutTerminal ==
  [][ (bar.is_knocked_out /\ ~bar'.is_knocked_out) =>
        \/ ReviveStep
        \/ /\ LiftStep
           /\ remove_limit_ok(limits, Head(lift_events).id)
           /\ bar'.max > 0
           /\ bar'.max = derived_max(bar.base_max, limits')
        \/ /\ SweepStep
           /\ Len(limits') < Len(limits)
           /\ bar'.max > 0
           /\ bar'.max = derived_max(bar.base_max, limits') ]_vars

(* C32 witness: a level-up has raised the max of a knocked-out entity from *)
(* 0 (a limit of 110 points on a base of 100) to the bonus, and the entity *)
(* is still knocked out.                                                   *)
C32_Witness ==
  /\ pc = "idle" /\ outcome = "leveled"
  /\ bar.is_knocked_out
  /\ Len(limits) = 1 /\ limits[1].power_value = FP(110)
  /\ bar.max = level_up_bonus(2)
  /\ bar.base_max = FP(100) + level_up_bonus(2)


(* C33: in every reachable state (intent amounts and limit values being    *)
(* non-negative) a knocked-out entity has current = 0.                     *)
C33_KnockedOutIsEmpty ==
  bar.is_knocked_out => bar.current = 0

(* C33 witness: a positive change has just been handled for a knocked-out  *)
(* entity whose max is positive, and current is still 0.                   *)
C33_Witness ==
  /\ pc = "change" /\ outcome = "added"
  /\ bar.is_knocked_out
  /\ bar.max > 0
  /\ bar.current = 0


regenerate_power_capped ==
  /\ pc = "regen"
  /\ pc' = "timers"
  /\ \E d \in Deltas :
       /\ delta' = d
       /\ IF ~bar.is_knocked_out
          THEN LET regeneration_blocked == any_stops_regeneration(limits)
               IN  IF ~regeneration_blocked
                   THEN LET r2 == regen_update(regen, d)
                            regen_amount == get_regen_amount(r2, d)
                        IN  /\ regen' = [r2 EXCEPT !.time_since_spend = Min(@, MaxTime)]
                            /\ IF regen_amount > 0
                               THEN bar' = add(bar, regen_amount) /\ changed' = TRUE
                               ELSE UNCHANGED <<bar, changed>>
                   ELSE UNCHANGED <<bar, regen, changed>>
          ELSE UNCHANGED <<bar, regen, changed>>
  /\ outcome' = IF bar' # bar THEN "regenerated" ELSE "none"
  /\ UNCHANGED <<level, limits, queues, notifications, history, arrival>>

Tick ==
  \/ BeginTick
  \/ handle_spend_power
  \/ handle_power_change
  \/ handle_apply_limit
  \/ handle_lift_limit
  \/ handle_revive
  \/ regenerate_power_capped
  \/ update_limit_timers
  \/ detect_knockout
  \/ handle_level_up

NextLive ==
  \/ PowerSystem_spend
  \/ PowerSystem_change
  \/ PowerSystem_limit
  \/ PowerSystem_lift
  \/ PowerSystem_revive
  \/ GainExperience
  \/ Tick

RampSpeeds == {0, FP(2)}

(* PowerBundle::custom, with the public field ramp_speed left at 2.0 or    *)
(* set to 0.                                                               *)
InitLive ==
  /\ bar = PowerBundle_custom(FP(100), 1, FP(5), FP(20)).power_bar
  /\ \E regen_delay \in RegenDelays, ramp_speed \in RampSpeeds :
       regen = [PowerBundle_custom(FP(100), regen_delay, FP(5), FP(20)).power_regeneration
                  EXCEPT !.ramp_speed = ramp_speed]
  /\ level = PowerBundle_custom(FP(100), 1, FP(5), FP(20)).power_level
  /\ limits = PowerBundle_custom(FP(100), 1, FP(5), FP(20)).power_limits
  /\ spend_events = <<>>
  /\ change_events = <<>>
  /\ limit_events = <<>>
  /\ lift_events = <<>>
  /\ revive_events = <<>>
  /\ knocked_out_events = <<>>
  /\ level_up_events = <<>>
  /\ pc = "idle"
  /\ delta = 0
  /\ changed = TRUE
  /\ last_applied = NoProbe
  /\ ko_by_limit = FALSE
  /\ soft_revived = FALSE
  /\ revived_empty = "none"
  /\ outcome = "none"
  /\ arrival = <<>>

SpecLive == InitLive /\ [][NextLive]_vars /\ WF_vars(Tick)

Ticked(ls, d) ==
  [i \in 1..Len(ls) |->
     IF ls[i].timed
     THEN [ls[i] EXCEPT !.elapsed = @ + d, !.age = @ + d]
     ELSE ls[i]]

StillRunning(l) == ~(l.timed /\ l.elapsed >= l.duration)

(* C36: every sweep, whether or not the entity is knocked out or its       *)
(* regeneration is suppressed, advances the timer of every timed limit by  *)
(* the tick's delta > 0 and removes the limits whose timer has reached its *)
(* duration, so that a timed limit in the stack has run for every tick     *)
(* since it was applied and for less than its duration; and once no        *)
(* apply-limit intent arrives any more, the ticks going on, the stack      *)
(* eventually holds no timed limit.                                        *)
C36_TimedLimitsExpire ==
  /\ [][ SweepStep => /\ delta > 0
                      /\ limits' = SelectSeq(Ticked(limits, delta), StillRunning)
     ]_vars
  /\ [](\A i \in 1..Len(limits) :
          limits[i].timed => /\ limits[i].elapsed = limits[i].age
                             /\ limits[i].elapsed < limits[i].duration)
  /\ (<>[](limit_events = <<>>)
        => <>[](\A i \in 1..Len(limits) : ~limits[i].timed))

(* C36 witness: the sweep has just removed an expired limit from the stack *)
(* of an entity that is knocked out, and stays so under the limit that is  *)
(* left.                                                                   *)
C36_Witness ==
  /\ pc = "detect" /\ outcome = "expired"
  /\ bar.is_knocked_out
  /\ Len(limits) = 1 /\ ~limits[1].timed


ResetStep ==
  \/ SpendStep /\ spend(bar, Head(spend_events).amount).ok
  \/ ApplyStep /\ Head(limit_events).resets_cooldown

(* C37: current_rate never exceeds max_rate (base_rate <= max_rate being   *)
(* given), and in every step that is not a reset current_rate does not     *)
(* decrease, stays at max_rate once it is there, and time_since_spend does *)
(* not decrease.                                                           *)
C37_RateMonotone ==
  /\ [](regen.base_rate <= regen.max_rate => regen.current_rate <= regen.max_rate)
  /\ [][ ~ResetStep =>
           /\ regen'.current_rate >= regen.current_rate
           /\ regen.current_rate = regen.max_rate
                => regen'.current_rate = regen.max_rate
           /\ regen'.time_since_spend >= regen.time_since_spend ]_vars

(* C37 witness: the rate reached max_rate 5 s ago at the latest and the    *)
(* regeneration step of this tick has left it there.                       *)
C37_Witness ==
  /\ pc = "timers" /\ delta = 2
  /\ regen.is_active
  /\ regen.regen_delay = 1
  /\ regen.time_since_spend = MaxTime
  /\ regen.current_rate = regen.max_rate


(* C38: at most one level is gained per tick, however much experience has  *)
(* accumulated: level changes only in the leveling step, by exactly 1,     *)
(* with experience set to 0 (the excess over experience_to_next is         *)
(* discarded) and experience_to_next strictly increased; level never       *)
(* decreases, and a tick emits at most one level-up notification.          *)
C38_OneLevelPerTick ==
  /\ [](Len(level_up_events) <= 1)
  /\ [][ /\ level'.level >= level.level
         /\ level'.level <= level.level + 1
         /\ level'.level # level.level
              => /\ pc = "level" /\ pc' = "idle"
                 /\ level.experience >= level.experience_to_next
                 /\ level'.experience = 0
                 /\ level'.experience_to_next > level.experience_to_next
         /\ level'.experience_to_next # level.experience_to_next
              => level'.level = level.level + 1 ]_vars

(* C38 witness: a tick has ended whose leveling step found more experience *)
(* than the threshold (300 against 100, enough for two levels had the      *)
(* excess been kept): one level gained, experience 0.                      *)
C38_Witness ==
  /\ EndOfTick /\ outcome = "leveled_discarding"
  /\ level = [level |-> 2, experience |-> 0, experience_to_next |-> FP(150)]
  /\ Len(level_up_events) = 1


(* C39: lifting a limit from an entity that is not knocked out changes     *)
(* only the limit stack and max: current, the knockout flag, base_max, the *)
(* regeneration state and the level are unchanged, and max does not        *)
(* decrease.                                                               *)
C39_LiftFrame ==
  [][ (LiftStep /\ ~bar.is_knocked_out) =>
        /\ bar'.current = bar.current
        /\ bar'.is_knocked_out = bar.is_knocked_out
        /\ bar'.base_max = bar.base_max
        /\ regen' = regen
        /\ level' = level
        /\ notifications' = notifications
        /\ bar'.max >= bar.max ]_vars

====
